---- MODULE Spec2Model ----
(***************************************************************************)
(* A model of app.py, the "AI Story Creator" Streamlit script:             *)
(*   estimate_max_tokens  the token budget heuristic (float arithmetic),   *)
(*   build_user_prompt    the prompt builder (strings as token sequences), *)
(*   generate_story       the single chat-completion request,              *)
(*   app                  one script run per user interaction.             *)
(* Three specifications share the variables:                               *)
(*   SpecTokens  applies estimate_max_tokens to bounded integer inputs,    *)
(*   SpecPrompt  edits the form widgets and applies build_user_prompt,     *)
(*   Spec        runs the script: first load, reruns and submissions.      *)
(***************************************************************************)
EXTENDS Integers, Sequences, FiniteSets, TLC

VARIABLES
    est_in,       \* argument of estimate_max_tokens, or NoArg
    est_out,      \* its outcome, or NoResult
    form,         \* the widget values of the form and the sidebar
    user_prompt,  \* the string returned by build_user_prompt, or NoPrompt
    credential,   \* whether OPENAI_API_KEY is set in the environment
    script,       \* how the latest script run ended
    story_text,   \* st.session_state["story_text"], or NoStory
    notice,       \* what st.error / the uncaught-exception box shows
    shown,        \* the story written and offered for download by the run
    sent,         \* the requests the latest run issued to the completion API
    nsub,         \* number of form submissions so far
    nreq,         \* number of requests issued so far
    lastGood,     \* text returned by the most recent successful submission
    heldFrom,     \* number of the submission that produced story_text
    outcome       \* what the completion call of the latest run did

vars == <<est_in, est_out, form, user_prompt, credential, script,
          story_text, notice, shown, sent, nsub, nreq, lastGood, heldFrom, outcome>>

estVars == <<est_in, est_out>>
promptVars == <<form, user_prompt>>
appVars == <<credential, script, story_text, notice, shown, sent, nsub, nreq,
             lastGood, heldFrom, outcome>>

(***************************************************************************)
(* Bounds of the model.                                                    *)
(***************************************************************************)
MaxWords == 4100      \* largest small target_words tried
MaxNeg == 300         \* smallest small target_words tried is -MaxNeg
MaxBigMant == 7       \* big inputs are m * 2^k with m in 1..MaxBigMant
ExpWindow == 5        \* ... and k within ExpWindow below DblMaxExp, or 1 above
MaxEdits == 3         \* widget edits away from the form's default values
MaxSubmissions == 3   \* form submissions in one session

(***************************************************************************)
(* estimate_max_tokens.  Python evaluates target_words * 1.33 by           *)
(* converting the int to a double and multiplying in IEEE-754 binary64     *)
(* (round to nearest, ties to even); int() truncates toward zero.          *)
(* The double 1.33 is Mant133 / 2^52 with                                  *)
(*   Mant133 = 5989787504402760 = 0x1547AE147AE148,                        *)
(* kept here in limbs of LimbBits bits so that every product fits.         *)
(* An integer is a record [neg, m, k] standing for (-1)^neg * m * 2^k.     *)
(***************************************************************************)
LimbBits == 13
Mant133 == <<328, 983, 2949, 2703, 1>>
DblMaxExp == 1024
MinTokens == 256
MaxTokens == 4096

NoArg == [neg |-> FALSE, m |-> 0, k |-> -1]
NoResult == [raised |-> "unset", value |-> 0]

RECURSIVE Pow2(_)
Pow2(n) == IF n = 0 THEN 1 ELSE 2 * Pow2(n - 1)

Limb == Pow2(LimbBits)

RECURSIVE BitLen(_)
BitLen(n) == IF n = 0 THEN 0 ELSE 1 + BitLen(n \div 2)

Small(i) == [neg |-> i < 0, m |-> IF i < 0 THEN -i ELSE i, k |-> 0]

SmallInts == { Small(i) : i \in (-MaxNeg)..MaxWords }

BigInts == [neg : BOOLEAN, m : 1..MaxBigMant,
            k : (DblMaxExp - ExpWindow)..(DblMaxExp + 1)]

IntInputs == SmallInts \cup BigInts

\* the exact product m * Mant133 as [q, lo, l2, l3]:
\* m * Mant133 = q * 2^52 + l3 * 2^39 + l2 * 2^26 + lo
MulMant(m) ==
    LET d0 == m * Mant133[1]
        d1 == m * Mant133[2] + (d0 \div Limb)
        d2 == m * Mant133[3] + (d1 \div Limb)
        d3 == m * Mant133[4] + (d2 \div Limb)
        d4 == m * Mant133[5] + (d3 \div Limb)
    IN [q |-> d4, lo |-> (d0 % Limb) + Limb * (d1 % Limb),
        l2 |-> d2 % Limb, l3 |-> d3 % Limb]

\* the integer part of the product rounded to 53 significant bits
\* (in units of 2^k): the rounding drops the low e bits of the exact product
RoundedInt(m) ==
    LET p == MulMant(m)
        e == BitLen(p.q) - 1
        rem == p.lo % Pow2(e)
        kept == p.lo \div Pow2(e)
        up == /\ e > 0
              /\ \/ 2 * rem > Pow2(e)
                 \/ 2 * rem = Pow2(e) /\ kept % 2 = 1
        ones == /\ kept = Pow2(2 * LimbBits - e) - 1
                /\ p.l2 = Limb - 1
                /\ p.l3 = Limb - 1
    IN IF up /\ ones THEN p.q + 1 ELSE p.q

Clamp(v) ==
    LET lower == IF v < MaxTokens THEN v ELSE MaxTokens
    IN IF MinTokens > lower THEN MinTokens ELSE lower

\* estimate_max_tokens rounding the product up instead of truncating it
estimate_max_tokens_ceil(n) ==
    IF n.k > 0 \/ n.m = 0 THEN [raised |-> "none", value |-> Clamp(0)]
    ELSE [raised |-> "none",
          value |-> Clamp(IF n.neg THEN -RoundedInt(n.m)
                          ELSE RoundedInt(n.m) + 1)]

estimate_max_tokens(n) ==
    IF n.m = 0 THEN [raised |-> "none", value |-> Clamp(0)]
    ELSE IF BitLen(n.m) + n.k > DblMaxExp
    THEN [raised |-> "OverflowError", value |-> 0]   \* int too large for a float
    ELSE LET r == RoundedInt(n.m)
         IN IF BitLen(r) + n.k > DblMaxExp
            THEN [raised |-> "OverflowError", value |-> 0]  \* int(inf)
            ELSE IF n.k > 0
            THEN \* |product| >= 2^52: far beyond both clamp limits
                 [raised |-> "none",
                  value |-> IF n.neg THEN MinTokens ELSE MaxTokens]
            ELSE [raised |-> "none",
                  value |-> Clamp(IF n.neg THEN -r ELSE r)]

(***************************************************************************)
(* Strings are sequences of tokens: the characters a user can type         *)
(* (Chars), decimal digits, and the literals of the source, each literal   *)
(* one token.  "\n" is the line break that "\n".join puts between parts.   *)
(***************************************************************************)
Chars == {" ", "\n", "a"}
Whitespace == {" ", "\n"}
NL == "\n"

Genres == <<"Fantasy", "Science Fiction", "Mystery/Thriller", "Horror",
            "Romance", "Historical Fiction", "Literary Fiction", "Adventure",
            "Young Adult", "Children's">>
Tones == <<"Whimsical", "Dark", "Uplifting", "Melancholic", "Hopeful",
           "Suspenseful", "Humorous", "Epic", "Cozy">>
Povs == <<"First person", "Second person", "Third person limited",
          "Third person omniscient">>
Audiences == <<"Children", "Young Adult", "General", "Adult">>
Languages == <<"English", "Spanish", "French", "German", "Italian",
               "Portuguese", "Hindi", "Japanese", "Korean", "Chinese">>
Models == <<"gpt-4", "gpt-3.5-turbo">>
default_words == 900
SliderMin == 200
SliderMax == 4000
DefaultTemperature == 9      \* temperatures in tenths: 0.9
MaxTemperature == 20         \* 2.0

TaskLine == "Task: Write an original, engaging story that follows these specifications."
PremiseLabel == "Premise: "
DefaultPremise == "Create a compelling story from scratch inspired by the genre and tone."
GenreLabel == "Genre: "
ToneLabel == "Tone/Mood: "
PovLabel == "Point of View: "
AudienceLabel == "Intended Audience: "
LanguageLabel == "Primary Language: "
LengthLabel == "Target Length (approx.): "
WordsSuffix == " words"
ThemesLabel == "Key Themes and Motifs to Emphasize: "
CharactersLabel == "Characters (names, roles, traits): "
SettingLabel == "Setting (time/place/atmosphere): "
TitleFlagLabel == "Include a Title: "
DialogueFlagLabel == "Include Dialogue: "
RequirementsHeader == "Requirements:"
ReqCoherent == "- Keep the narrative coherent with clear beginning, middle, and end."
ReqShow == "- Show, don't just tell. Use sensory details and vivid imagery."
ReqPov == "- Maintain consistent POV and tense, unless stylistically justified."
ReqExplicit == "- Avoid explicit content; keep it appropriate for the selected audience."
ReqDialogue == "- Use natural, character-revealing dialogue where relevant."
ReqNarration == "- Minimize dialogue; focus on narration and description."
ReqTitle == "- If a title is requested, place it on the first line and then a blank line before the story."
ReqNoTitle == "- Do not include a title line."

NoPrompt == <<"<no prompt>">>

\* str.strip(): drop leading and trailing whitespace
RECURSIVE LStrip(_)
LStrip(s) ==
    IF s # <<>> /\ Head(s) \in Whitespace THEN LStrip(Tail(s)) ELSE s

RECURSIVE RStrip(_)
RStrip(s) ==
    IF s # <<>> /\ s[Len(s)] \in Whitespace
    THEN RStrip(SubSeq(s, 1, Len(s) - 1)) ELSE s

Strip(s) == RStrip(LStrip(s))

\* str(int) as the f-string formats it
Digit(d) == <<"0", "1", "2", "3", "4", "5", "6", "7", "8", "9">>[d + 1]

RECURSIVE NatToStr(_)
NatToStr(n) ==
    IF n < 10 THEN <<Digit(n)>> ELSE NatToStr(n \div 10) \o <<Digit(n % 10)>>

IntToStr(i) == IF i < 0 THEN <<"-">> \o NatToStr(-i) ELSE NatToStr(i)

YesNo(b) == IF b THEN "Yes" ELSE "No"

\* "\n".join(parts)
RECURSIVE Join(_)
Join(parts) ==
    IF parts = <<>> THEN <<>>
    ELSE IF Len(parts) = 1 THEN parts[1]
    ELSE parts[1] \o <<NL>> \o Join(Tail(parts))

\* lines 28-35: the task line and the seven always-present directives
HeadParts(f) ==
    LET stripped == Strip(f.premise)
    IN << <<TaskLine>>,
          <<PremiseLabel>> \o
              (IF stripped # <<>> THEN stripped ELSE <<DefaultPremise>>),
          <<GenreLabel, f.genre>>,
          <<ToneLabel, f.tone>>,
          <<PovLabel, f.pov>>,
          <<AudienceLabel, f.audience>>,
          <<LanguageLabel, f.language>>,
          <<LengthLabel>> \o IntToStr(f.target_words) \o <<WordsSuffix>> >>

\* lines 36-41, with the conditions and the order changed as a slip would
OptionalParts_swapped(f) ==
    (IF Strip(f.characters) # <<>>
     THEN << <<CharactersLabel>> \o f.characters >> ELSE <<>>)
    \o (IF Strip(f.themes) # <<>>
        THEN << <<ThemesLabel>> \o f.themes >> ELSE <<>>)
    \o (IF Strip(f.setting) # <<>>
        THEN << <<SettingLabel>> \o f.setting >> ELSE <<>>)

OptionalParts_unstripped(f) ==
    (IF f.themes # <<>>
     THEN << <<ThemesLabel>> \o f.themes >> ELSE <<>>)
    \o (IF f.characters # <<>>
        THEN << <<CharactersLabel>> \o f.characters >> ELSE <<>>)
    \o (IF f.setting # <<>>
        THEN << <<SettingLabel>> \o f.setting >> ELSE <<>>)

\* lines 36-41: the optional directives
OptionalParts(f) ==
    (IF Strip(f.themes) # <<>>
     THEN << <<ThemesLabel>> \o f.themes >> ELSE <<>>)
    \o (IF Strip(f.characters) # <<>>
        THEN << <<CharactersLabel>> \o f.characters >> ELSE <<>>)
    \o (IF Strip(f.setting) # <<>>
        THEN << <<SettingLabel>> \o f.setting >> ELSE <<>>)

\* lines 42-44: the two flag lines and the header
FlagParts(f) ==
    << <<TitleFlagLabel, YesNo(f.include_title)>>,
       <<DialogueFlagLabel, YesNo(f.include_dialogue)>>,
       <<RequirementsHeader>> >>

\* lines 45-52 with the title condition inverted
RequirementParts_inverted(f) ==
    << <<ReqCoherent>>, <<ReqShow>>, <<ReqPov>>, <<ReqExplicit>>,
       <<IF f.include_dialogue THEN ReqDialogue ELSE ReqNarration>>,
       <<IF f.include_title THEN ReqNoTitle ELSE ReqTitle>> >>

\* lines 45-52: the requirement lines
RequirementParts(f) ==
    << <<ReqCoherent>>, <<ReqShow>>, <<ReqPov>>, <<ReqExplicit>>,
       <<IF f.include_dialogue THEN ReqDialogue ELSE ReqNarration>>,
       <<IF f.include_title THEN ReqTitle ELSE ReqNoTitle>> >>

\* the parts list of build_user_prompt, one sequence of tokens per part
PromptParts(f) ==
    HeadParts(f) \o OptionalParts(f) \o FlagParts(f) \o RequirementParts(f)

build_user_prompt(f) == Join(PromptParts(f))

\* the widget values a fresh session shows
DefaultForm ==
    [premise |-> <<>>, genre |-> Genres[1], tone |-> Tones[5], pov |-> Povs[3],
     audience |-> Audiences[3], language |-> Languages[1],
     include_title |-> TRUE, include_dialogue |-> TRUE,
     themes |-> <<>>, characters |-> <<>>, setting |-> <<>>,
     target_words |-> default_words,
     model |-> Models[1], temperature |-> DefaultTemperature]

TextFields == {"premise", "themes", "characters", "setting"}
SelectFields == {"genre", "tone", "pov", "audience", "language"}
FlagFields == {"include_title", "include_dialogue"}

\* the options tried for each select box: the default and the first other one
Picks(field) ==
    CASE field = "genre" -> {Genres[1], Genres[2]}
      [] field = "tone" -> {Tones[5], Tones[1]}
      [] field = "pov" -> {Povs[3], Povs[1]}
      [] field = "audience" -> {Audiences[3], Audiences[1]}
      [] field = "language" -> {Languages[1], Languages[2]}

SliderPicks == {SliderMin, default_words, SliderMax}

\* number of single edits that separate a form from the default form
Distance(f) ==
    Len(f.premise) + Len(f.themes) + Len(f.characters) + Len(f.setting)
    + Cardinality({x \in SelectFields \cup FlagFields \cup {"target_words"} :
                     f[x] # DefaultForm[x]})

(***************************************************************************)
(* SpecTokens: estimate_max_tokens applied to each bounded integer input.  *)
(***************************************************************************)
PromptIdle == form = DefaultForm /\ user_prompt = NoPrompt
EstIdle == est_in = NoArg /\ est_out = NoResult

Estimate ==
    /\ est_out = NoResult
    /\ est_out' = estimate_max_tokens(est_in)
    /\ UNCHANGED <<est_in, promptVars, appVars>>

(***************************************************************************)
(* SpecPrompt: the user edits the widgets; Build applies build_user_prompt *)
(* to the current values.  user_prompt is the value returned for the       *)
(* values now in the form: an edit discards it.                            *)
(***************************************************************************)
Edited(f) ==
    /\ Distance(f) <= MaxEdits
    /\ form' = f
    /\ user_prompt' = NoPrompt
    /\ UNCHANGED <<estVars, appVars>>

TypeChar ==
    \E x \in TextFields, c \in Chars :
        Edited([form EXCEPT ![x] = Append(@, c)])

Select ==
    \E x \in SelectFields : \E v \in Picks(x) \ {form[x]} :
        Edited([form EXCEPT ![x] = v])

Toggle ==
    \E x \in FlagFields : Edited([form EXCEPT ![x] = ~@])

MoveSlider ==
    \E w \in SliderPicks \ {form.target_words} :
        Edited([form EXCEPT !.target_words = w])

Build ==
    /\ user_prompt = NoPrompt
    /\ user_prompt' = build_user_prompt(form)
    /\ UNCHANGED <<form, estVars, appVars>>

NextPrompt == TypeChar \/ Select \/ Toggle \/ MoveSlider \/ Build

(***************************************************************************)
(* generate_story and app.  One script run is one step: Streamlit runs     *)
(* the script top to bottom on the first load and on every interaction,    *)
(* line 6 (client = OpenAI()) included.  OpenAI() raises OpenAIError when  *)
(* no API key is configured.  The completion service answers a request     *)
(* with a story or with a failure; Errors stand for the texts str(e) of    *)
(* the exceptions of lines 67-74 (IndexError: a response without choices). *)
(***************************************************************************)
SystemAssistant == "You are a helpful assistant."
SystemWriter == "You are an award-winning fiction writer who crafts vivid, emotionally resonant stories while strictly following the user's specifications."
FailurePrefix == "Failed to generate story: "

Stories == {"story A", "story B"}
Errors == {"AuthenticationError", "APIConnectionError", "RateLimitError",
           "IndexError"}
NoStory == "<no story>"
NoOutcome == [kind |-> "none", text |-> "none"]
Outcomes == [kind : {"ok"}, text : Stories] \cup [kind : {"error"}, text : Errors]
NoNotice == [kind |-> "none", text |-> <<>>]

\* the widget values tried in a submission: the defaults, the defaults with
\* one widget changed, and all of these changes together
AppForms ==
    { DefaultForm,
      [DefaultForm EXCEPT !.premise = <<"a">>],
      [DefaultForm EXCEPT !.themes = <<"a", NL, "a">>],
      [DefaultForm EXCEPT !.target_words = SliderMax],
      [DefaultForm EXCEPT !.model = Models[2]],
      [DefaultForm EXCEPT !.temperature = MaxTemperature],
      [DefaultForm EXCEPT !.premise = <<"a">>, !.themes = <<"a", NL, "a">>,
                          !.target_words = SliderMax, !.model = Models[2],
                          !.temperature = MaxTemperature] }

\* generate_story without the first system message
generate_story_short(model, prompt, temperature, max_tokens) ==
    << [model |-> model,
        messages |-> << [role |-> "system", content |-> <<SystemWriter>>],
                        [role |-> "user", content |-> prompt] >>,
        temperature |-> temperature,
        max_tokens |-> max_tokens,
        n |-> 1] >>

\* the requests generate_story sends to client.chat.completions.create
generate_story(model, prompt, temperature, max_tokens) ==
    << [model |-> model,
        messages |-> << [role |-> "system", content |-> <<SystemAssistant>>],
                        [role |-> "system", content |-> <<SystemWriter>>],
                        [role |-> "user", content |-> prompt] >>,
        temperature |-> temperature,
        max_tokens |-> max_tokens,
        n |-> 1] >>

\* the try block keeping the first story / dropping the story on a failure
StoryAfter_keepFirst(held, o) ==
    IF o.kind = "ok" /\ held = NoStory THEN o.text ELSE held

StoryAfter_clearOnError(held, o) == IF o.kind = "ok" THEN o.text ELSE NoStory

\* line 139 / lines 140-141: session_state["story_text"] after the try block
StoryAfter(held, o) == IF o.kind = "ok" THEN o.text ELSE held

\* the except clause showing a notice without the exception's text
ExceptNotice_generic(o) ==
    IF o.kind = "error"
    THEN [kind |-> "st.error", text |-> <<FailurePrefix>>]
    ELSE NoNotice

\* lines 140-141: what the except clause shows
ExceptNotice(o) ==
    IF o.kind = "error"
    THEN [kind |-> "st.error", text |-> <<FailurePrefix, o.text>>]
    ELSE NoNotice

\* lines 143-154: the story written and offered for download
Displayed(held) == IF held # NoStory THEN held ELSE NoStory

\* line 6 fails: the run stops before anything is rendered
Crashed ==
    /\ script' = "crashed"
    /\ notice' = [kind |-> "uncaught", text |-> <<"OpenAIError">>]
    /\ shown' = NoStory
    /\ sent' = <<>>
    /\ outcome' = NoOutcome
    /\ UNCHANGED <<user_prompt, story_text, nreq, lastGood, heldFrom>>

\* a run without a submission: the first load, or a rerun
Rerun ==
    /\ IF ~credential THEN Crashed /\ UNCHANGED <<form, nsub>>
       ELSE /\ script' = "done"
            /\ notice' = NoNotice
            /\ shown' = Displayed(story_text)
            /\ sent' = <<>>
            /\ outcome' = NoOutcome
            /\ UNCHANGED <<form, user_prompt, story_text, nsub, nreq, lastGood,
                           heldFrom>>
    /\ UNCHANGED <<credential, estVars>>

\* a run started by the form's submit button, with widget values f, to which
\* the completion service answers o
SubmitWith(f, o) ==
    /\ script = "done"              \* the form was rendered by the last run
    /\ nsub < MaxSubmissions
    /\ nsub' = nsub + 1
    /\ form' = f
    /\ IF ~credential THEN Crashed
       ELSE LET max_tokens == estimate_max_tokens(Small(f.target_words)).value
                prompt == build_user_prompt(f)
                calls == generate_story(f.model, prompt, f.temperature, max_tokens)
                held == StoryAfter(story_text, o)
            IN /\ user_prompt' = prompt
               /\ sent' = calls
               /\ nreq' = nreq + Len(calls)
               /\ outcome' = o
               /\ story_text' = held
               /\ notice' = ExceptNotice(o)
               /\ shown' = Displayed(held)
               /\ script' = "done"
               /\ lastGood' = IF o.kind = "ok" THEN o.text ELSE lastGood
               /\ heldFrom' = IF held # story_text \/ o.kind = "ok"
                              THEN nsub + 1 ELSE heldFrom
    /\ UNCHANGED <<credential, estVars>>

Submit == \E f \in AppForms, o \in Outcomes : SubmitWith(f, o)

AppIdle ==
    /\ script = "notrun"
    /\ story_text = NoStory
    /\ notice = NoNotice
    /\ shown = NoStory
    /\ sent = <<>>
    /\ nsub = 0
    /\ nreq = 0
    /\ lastGood = NoStory
    /\ heldFrom = 0
    /\ outcome = NoOutcome

InitTokens ==
    /\ est_in \in IntInputs
    /\ est_out = NoResult
    /\ PromptIdle
    /\ credential = TRUE
    /\ AppIdle

NextTokens == Estimate

SpecTokens == InitTokens /\ [][NextTokens]_vars

InitPrompt ==
    /\ EstIdle
    /\ PromptIdle
    /\ credential = TRUE
    /\ AppIdle

SpecPrompt == InitPrompt /\ [][NextPrompt]_vars

Init ==
    /\ EstIdle
    /\ PromptIdle
    /\ credential \in BOOLEAN
    /\ AppIdle

Next == Rerun \/ Submit

Spec == Init /\ [][Next]_vars

(***************************************************************************)
(* Properties.                                                             *)
(***************************************************************************)
\* the lines of a string: str.split("\n")
RECURSIVE SplitAcc(_, _, _)
SplitAcc(s, cur, acc) ==
    IF s = <<>> THEN Append(acc, cur)
    ELSE IF Head(s) = NL THEN SplitAcc(Tail(s), <<>>, Append(acc, cur))
    ELSE SplitAcc(Tail(s), Append(cur, Head(s)), acc)

SplitLines(s) == SplitAcc(s, <<>>, <<>>)

\* what a line starts with ("" for an empty line)
Starts(lines) ==
    [i \in 1..Len(lines) |-> IF lines[i] = <<>> THEN "" ELSE lines[i][1]]

HeadOrder == <<TaskLine, PremiseLabel, GenreLabel, ToneLabel, PovLabel,
               AudienceLabel, LanguageLabel, LengthLabel>>
OptionalOrders ==
    { <<>>, <<ThemesLabel>>, <<CharactersLabel>>, <<SettingLabel>>,
      <<ThemesLabel, CharactersLabel>>, <<ThemesLabel, SettingLabel>>,
      <<CharactersLabel, SettingLabel>>,
      <<ThemesLabel, CharactersLabel, SettingLabel>> }
TailOrders ==
    { <<TitleFlagLabel, DialogueFlagLabel, RequirementsHeader,
        ReqCoherent, ReqShow, ReqPov, ReqExplicit, d, t>> :
        d \in {ReqDialogue, ReqNarration}, t \in {ReqTitle, ReqNoTitle} }
FixedOrders ==
    { HeadOrder \o opt \o tl : opt \in OptionalOrders, tl \in TailOrders }

Literals ==
    { o[j] : o \in {HeadOrder} \cup TailOrders, j \in 1..8 }
    \cup {ThemesLabel, CharactersLabel, SettingLabel}
    \cup {ReqDialogue, ReqNarration, ReqTitle, ReqNoTitle}

RECURSIVE Keep(_, _)
Keep(seq, set) ==
    IF seq = <<>> THEN <<>>
    ELSE IF Head(seq) \in set THEN <<Head(seq)>> \o Keep(Tail(seq), set)
    ELSE Keep(Tail(seq), set)

HasNL(s) == \E i \in 1..Len(s) : s[i] = NL
Blank(s) == \A i \in 1..Len(s) : s[i] \in Whitespace

\* no text that reaches the prompt holds a line break
SingleLineTexts(f) ==
    /\ ~HasNL(Strip(f.premise))
    /\ \A x \in {"themes", "characters", "setting"} : Blank(f[x]) \/ ~HasNL(f[x])

Built == user_prompt # NoPrompt
PromptLines == SplitLines(user_prompt)

\* clamp(floor(w * 133 / 100), 256, 4096) in exact integer arithmetic
ClampedFloor(w) ==
    LET fl == (w * 133) \div 100
    IN IF fl < 256 THEN 256 ELSE IF fl > 4096 THEN 4096 ELSE fl

\* C1: for every integer target_words in [200, 4000], estimate_max_tokens
\* returns clamp(floor(target_words * 133 / 100), 256, 4096), a value in
\* [256, 4096]; 900 gives 1197 and 4000 gives 4096.
C1_EstimateIsClampedFloor ==
    (/\ est_out # NoResult
     /\ est_in.k = 0 /\ ~est_in.neg
     /\ est_in.m \in SliderMin..SliderMax)
    => /\ est_out.raised = "none"
       /\ est_out.value = ClampedFloor(est_in.m)
       /\ est_out.value \in 256..4096
       /\ est_in.m = 900 => est_out.value = 1197
       /\ est_in.m = 4000 => est_out.value = 4096

C1_Witness ==
    /\ est_in = Small(900)
    /\ est_out = [raised |-> "none", value |-> 1197]

\* C8: estimate_max_tokens is total over the integers and returns exactly
\* 256 for every target_words that is 0 or negative.
C8_NonPositiveGives256 ==
    (est_out # NoResult /\ (est_in.neg \/ est_in.m = 0))
    => est_out = [raised |-> "none", value |-> 256]

\* C2 as claimed: the lines of the returned string are, in this order, the
\* task line, premise, genre, tone, POV, audience, language, target length,
\* then themes, characters, setting (those present), the two flag lines, the
\* "Requirements:" header and the 6 requirement lines, and no other line.
C2_LinesInFixedOrder ==
    Built => Starts(PromptLines) \in FixedOrders

\* C2 amended: the lines of the returned string that start with a label or
\* are a requirement line appear in that fixed order, and when no text that
\* reaches the prompt holds a line break these are all the lines; a line
\* break inside a text field adds continuation lines to its entry.
C2_LabelledLinesInFixedOrder ==
    Built =>
        /\ Keep(Starts(PromptLines), Literals) \in FixedOrders
        /\ SingleLineTexts(form) => Starts(PromptLines) \in FixedOrders
        /\ Len(PromptLines) > Len(Keep(Starts(PromptLines), Literals))
               => ~SingleLineTexts(form)

C2_Witness ==
    /\ Built
    /\ ~Blank(form.themes) /\ ~Blank(form.characters) /\ ~Blank(form.setting)
    /\ Len(PromptLines) = 20

\* C3: build_user_prompt never fails; the themes, characters and setting
\* lines are each emitted if and only if the field is non-blank after
\* trimming; a premise that is blank after trimming gives exactly the line
\* "Premise: " followed by the default sentence; with all optional fields
\* blank no Themes/Characters/Setting line exists and the default sentence
\* is in the prompt.
C3_OptionalLinesIffNonBlank ==
    /\ ENABLED Build \/ Built
    /\ Built =>
        LET starts == Starts(PromptLines)
            Emitted(label) == \E i \in 1..Len(starts) : starts[i] = label
        IN /\ Emitted(ThemesLabel) <=> Strip(form.themes) # <<>>
           /\ Emitted(CharactersLabel) <=> Strip(form.characters) # <<>>
           /\ Emitted(SettingLabel) <=> Strip(form.setting) # <<>>
           /\ Strip(form.premise) = <<>>
                  => PromptLines[2] = <<PremiseLabel, DefaultPremise>>
           /\ Strip(form.premise) # <<>>
                  => \A i \in 1..Len(user_prompt) : user_prompt[i] # DefaultPremise
           /\ (\A x \in TextFields : Blank(form[x]))
                  => /\ Len(PromptLines) = 17
                     /\ \E i \in 1..Len(user_prompt) : user_prompt[i] = DefaultPremise

C3_Witness ==
    /\ Built
    /\ \A x \in TextFields : Blank(form[x])
    /\ form.premise # <<>> /\ form.themes # <<>>

\* C4: the requirements block has exactly 6 lines; the fifth is the dialogue
\* line when include_dialogue is true and the narration line otherwise, the
\* sixth is the title instruction when include_title is true and the
\* no-title instruction otherwise; of each pair exactly one line is emitted.
C4_RequirementsBlock ==
    Built =>
        LET lines == PromptLines
            n == Len(lines)
            Count(l) == Cardinality({i \in 1..n : lines[i] = <<l>>})
            header == CHOOSE i \in 1..n : lines[i] = <<RequirementsHeader>>
        IN /\ Count(RequirementsHeader) = 1
           /\ n - header = 6
           /\ lines[header + 5] =
                  <<IF form.include_dialogue THEN ReqDialogue ELSE ReqNarration>>
           /\ lines[header + 6] =
                  <<IF form.include_title THEN ReqTitle ELSE ReqNoTitle>>
           /\ Count(ReqDialogue) + Count(ReqNarration) = 1
           /\ Count(ReqTitle) + Count(ReqNoTitle) = 1

C4_Witness ==
    /\ Built
    /\ ~form.include_dialogue /\ ~form.include_title
    /\ PromptLines[Len(PromptLines)] = <<ReqNoTitle>>

\* a submission whose completion call succeeds
SubmitOk ==
    \E f \in AppForms, t \in Stories : SubmitWith(f, [kind |-> "ok", text |-> t])

\* C5: when the completion call of a submission fails, the run still ends
\* normally (the failure is caught), exactly one request was made (no retry),
\* the error notice contains the text of the error, and a later submission
\* can be made and can succeed.
C5_FailureCaughtAndReported ==
    outcome.kind = "error" =>
        /\ script = "done"
        /\ Len(sent) = 1
        /\ notice.kind = "st.error"
        /\ \E i \in 1..Len(notice.text) : notice.text[i] = outcome.text
        /\ nsub < MaxSubmissions => ENABLED SubmitOk

C5_Witness ==
    /\ outcome.kind = "error"
    /\ outcome.text = "RateLimitError"
    /\ nsub < MaxSubmissions

\* C6: each submission issues exactly one request, whether the call succeeds
\* or fails, carrying the two system messages and the built prompt as the
\* user message, in this order, with the model, temperature and max_tokens
\* of the run and n = 1.
C6_OneRequestPerSubmission ==
    /\ nreq = nsub
    /\ outcome.kind = "none" => sent = <<>>
    /\ outcome.kind # "none" =>
        /\ Len(sent) = 1
        /\ Len(sent[1].messages) = 3
        /\ sent[1].messages[1] = [role |-> "system", content |-> <<SystemAssistant>>]
        /\ sent[1].messages[2] = [role |-> "system", content |-> <<SystemWriter>>]
        /\ sent[1].messages[3] = [role |-> "user", content |-> user_prompt]
        /\ Starts(SplitLines(user_prompt))[1] = TaskLine
        /\ sent[1].model = form.model
        /\ sent[1].temperature = form.temperature
        /\ sent[1].max_tokens = ClampedFloor(form.target_words)
        /\ sent[1].n = 1

C6_Witness ==
    /\ nsub = 2 /\ nreq = 2
    /\ outcome.kind = "error"
    /\ Len(sent) = 1

\* C7: when the API credential is absent, the failure happens when the
\* completion call is first used by a submission, not earlier, and is
\* reported as an AuthenticationError.
C7_AbsentCredentialFailsOnFirstUse ==
    (~credential /\ script = "crashed") =>
        /\ nsub > 0
        /\ \E i \in 1..Len(notice.text) : notice.text[i] = "AuthenticationError"

\* C9 as claimed: the held story text is kept until the next submission,
\* which overwrites it: the held text is always the one the latest
\* submission produced.
C9_NextSubmissionOverwrites ==
    story_text # NoStory => heldFrom = nsub

\* C9 amended: once set, the held story text is kept unchanged, displayed and
\* offered for download across reruns; the next successful submission
\* overwrites it with its own text, and a failed submission leaves it held.
C9_HeldUntilNextSuccess ==
    [][/\ nsub' = nsub => story_text' = story_text
       /\ script' = "done" => shown' = story_text'
       /\ (nsub' = nsub + 1 /\ outcome'.kind = "ok")
              => story_text' = outcome'.text /\ heldFrom' = nsub'
       /\ (nsub' = nsub + 1 /\ outcome'.kind = "error")
              => story_text' = story_text]_vars

C9_Witness ==
    /\ nsub = 2 /\ heldFrom = 2
    /\ outcome.kind = "none"
    /\ story_text \in Stories /\ shown = story_text

\* C10: the held story text is present if and only if an earlier submission
\* succeeded and it is the text of the most recent successful submission; a
\* failed submission does not set, clear or change it, and the story is
\* shown together with the error notice.
C10_HeldIsLastSuccess ==
    /\ [](/\ story_text # NoStory <=> lastGood # NoStory
          /\ story_text = lastGood
          /\ outcome.kind = "error"
                 => shown = lastGood /\ notice.kind = "st.error")
    /\ [][outcome'.kind = "error" => story_text' = story_text]_vars

C10_Witness ==
    /\ outcome.kind = "error"
    /\ story_text \in Stories /\ shown = story_text
    /\ heldFrom < nsub

====
